---- MODULE Spec2Model ----
(***************************************************************************)
(* Model of the Gomoku engine (class GomokuEngine and its C wrapper).      *)
(* The engine state is the board, the move history, the gameOver flag,     *)
(* the winner and the difficulty.  Every public operation is one action.   *)
(***************************************************************************)
EXTENDS Integers, Sequences, FiniteSets, TLC

\* ---------------------------------------------------------------- constants
BOARD_SIZE == 15
EMPTY == 0
PLAYER == 1
AI == 2
EASY == 1
MEDIUM == 3
HARD == 5
\* length of a winning run (checkWin: count >= 5) and of an evaluator window
WIN_LENGTH == 5

\* ------------------------------------------------------------------- bounds
\* cap on the length of the history in the runs that pass any int as player
MaxAnyMoves == 3
\* late game: cap on the holes filled at a time, and on the Empty cells of a
\* board that is searched
MaxLateMoves == 2
MaxSearchEmpty == 4
\* cap on the holes filled at a time in the blocking position
MaxBlockMoves == 2
\* cap on the holes filled at a time in the position with cutoffs
MaxCutMoves == 2
\* opening: caps on the stones on a board that is searched, on the depth of
\* that search, and on the stones placed
MaxOpeningStones == 0
MaxOpeningPly == 1
MaxOpeningMoves == 2
\* cap on the stones of a board whose candidates are listed
MaxCandidateStones == 2

\* the engine's fields; the last call made (op), what it returned (ret) and
\* whether the game was decided when it was made (wasOver); the line of the
\* board the caller plays on (line)
VARIABLES board, moveHistory, gameOver, winner, difficulty, op, ret, wasOver, line,
          search, call

engine == <<board, moveHistory, gameOver, winner, difficulty>>
vars == <<board, moveHistory, gameOver, winner, difficulty, op, ret, wasOver, line,
          search, call>>

Idx == 0..(BOARD_SIZE - 1)
Max(a, b) == IF a >= b THEN a ELSE b
Min(a, b) == IF a <= b THEN a ELSE b

\* the engine as one value: what the operators below read and return
Engine == [board |-> board, moveHistory |-> moveHistory, gameOver |-> gameOver,
           winner |-> winner, difficulty |-> difficulty]

EmptyBoard == [r \in Idx |-> [c \in Idx |-> EMPTY]]

\* bool GomokuEngine::isValidPosition(int row, int col) const
isValidPosition(row, col) ==
  row >= 0 /\ row < BOARD_SIZE /\ col >= 0 /\ col < BOARD_SIZE

\* ---------------------------------------------------------------- checkWin
\* One of checkWin's four loops: cells row+i*dr, col+i*dc for i = lo..hi, the
\* cells outside the board skipped, count reset by every cell that is not
\* player's, TRUE as soon as count reaches 5.
RECURSIVE ScanLine(_, _, _, _, _, _, _, _, _)
ScanLine(b, row, col, dr, dc, i, hi, player, count) ==
  IF i > hi THEN FALSE
  ELSE LET r == row + i * dr
           c == col + i * dc
       IN IF ~isValidPosition(r, c)
          THEN ScanLine(b, row, col, dr, dc, i + 1, hi, player, count)
          ELSE IF b[r][c] = player
               THEN IF count + 1 >= WIN_LENGTH THEN TRUE
                    ELSE ScanLine(b, row, col, dr, dc, i + 1, hi, player, count + 1)
               ELSE ScanLine(b, row, col, dr, dc, i + 1, hi, player, 0)

\* checkWin without its fourth loop (the top-right to bottom-left diagonal)
checkWin_NoAntiDiagonal(b, row, col, player) ==
  \/ ScanLine(b, row, col, 0, 1, Max(0, col - 4) - col,
              Min(BOARD_SIZE - 1, col + 4) - col, player, 0)
  \/ ScanLine(b, row, col, 1, 0, Max(0, row - 4) - row,
              Min(BOARD_SIZE - 1, row + 4) - row, player, 0)
  \/ ScanLine(b, row, col, 1, 1, -4, 4, player, 0)

\* bool GomokuEngine::checkWin(int row, int col, int player) const
checkWin(b, row, col, player) ==
  \/ ScanLine(b, row, col, 0, 1, Max(0, col - 4) - col,
              Min(BOARD_SIZE - 1, col + 4) - col, player, 0)
  \/ ScanLine(b, row, col, 1, 0, Max(0, row - 4) - row,
              Min(BOARD_SIZE - 1, row + 4) - row, player, 0)
  \/ ScanLine(b, row, col, 1, 1, -4, 4, player, 0)
  \/ ScanLine(b, row, col, 1, -1, -4, 4, player, 0)

\* makeMove without the gameOver test of its guard
makeMove_IgnoresGameOver(e, row, col, player) ==
  IF ~isValidPosition(row, col) \/ e.board[row][col] # EMPTY
  THEN [e |-> e, ret |-> FALSE]
  ELSE LET b == [e.board EXCEPT ![row][col] = player]
           h == Append(e.moveHistory, [row |-> row, col |-> col, player |-> player])
           won == checkWin(b, row, col, player)
       IN [e |-> [e EXCEPT !.board = b, !.moveHistory = h,
                           !.gameOver = IF won THEN TRUE ELSE e.gameOver,
                           !.winner = IF won THEN player ELSE e.winner],
           ret |-> TRUE]

\* makeMove pushing its record below the top of the history
makeMove_RecordsBelowTop(e, row, col, player) ==
  IF ~isValidPosition(row, col) \/ e.board[row][col] # EMPTY \/ e.gameOver
  THEN [e |-> e, ret |-> FALSE]
  ELSE LET b == [e.board EXCEPT ![row][col] = player]
           h == <<[row |-> row, col |-> col, player |-> player]>> \o e.moveHistory
           won == checkWin(b, row, col, player)
       IN [e |-> [e EXCEPT !.board = b, !.moveHistory = h,
                           !.gameOver = IF won THEN TRUE ELSE e.gameOver,
                           !.winner = IF won THEN player ELSE e.winner],
           ret |-> TRUE]

\* ---------------------------------------------------------------- makeMove
\* bool GomokuEngine::makeMove(int row, int col, int player): the engine
\* after the call and the value returned
makeMove(e, row, col, player) ==
  IF ~isValidPosition(row, col) \/ e.board[row][col] # EMPTY \/ e.gameOver
  THEN [e |-> e, ret |-> FALSE]
  ELSE LET b == [e.board EXCEPT ![row][col] = player]
           h == Append(e.moveHistory, [row |-> row, col |-> col, player |-> player])
           won == checkWin(b, row, col, player)
       IN [e |-> [e EXCEPT !.board = b, !.moveHistory = h,
                           !.gameOver = IF won THEN TRUE ELSE e.gameOver,
                           !.winner = IF won THEN player ELSE e.winner],
           ret |-> TRUE]

\* ---------------------------------------------------------------- undoMove
\* one turn of undoMove's loop: nothing when the history is empty (break),
\* else pop the top record and clear its cell
undoOne(e) ==
  IF e.moveHistory = <<>> THEN e
  ELSE LET lastMove == e.moveHistory[Len(e.moveHistory)]
       IN [e EXCEPT !.moveHistory = SubSeq(e.moveHistory, 1, Len(e.moveHistory) - 1),
                    !.board = [e.board EXCEPT ![lastMove.row][lastMove.col] = EMPTY]]

\* undoMove popping one record only
undoMove_PopsOne(e) ==
  IF e.moveHistory = <<>> THEN [e |-> e, ret |-> FALSE]
  ELSE LET e2 == undoOne(e)
       IN [e |-> IF e2.gameOver THEN [e2 EXCEPT !.gameOver = FALSE, !.winner = EMPTY]
                 ELSE e2,
           ret |-> TRUE]

\* undoMove going back to in-progress only when the history is left empty
undoMove_KeepsStatus(e) ==
  IF e.moveHistory = <<>> THEN [e |-> e, ret |-> FALSE]
  ELSE LET e2 == undoOne(undoOne(e))
       IN [e |-> IF e2.gameOver /\ e2.moveHistory = <<>>
                 THEN [e2 EXCEPT !.gameOver = FALSE, !.winner = EMPTY]
                 ELSE e2,
           ret |-> TRUE]

\* undoMove without the check of an empty history
undoMove_SucceedsOnEmpty(e) ==
  LET e2 == undoOne(undoOne(e))
  IN [e |-> IF e2.gameOver THEN [e2 EXCEPT !.gameOver = FALSE, !.winner = EMPTY]
            ELSE e2,
      ret |-> TRUE]

\* bool GomokuEngine::undoMove()
undoMove(e) ==
  IF e.moveHistory = <<>> THEN [e |-> e, ret |-> FALSE]
  ELSE LET e2 == undoOne(undoOne(e))
       IN [e |-> IF e2.gameOver THEN [e2 EXCEPT !.gameOver = FALSE, !.winner = EMPTY]
                 ELSE e2,
           ret |-> TRUE]

\* bool GomokuEngine::canUndo() const
canUndo(e) == e.moveHistory # <<>>

\* int get_board_value(void* engine, int row, int col)
get_board_value(e, row, col) ==
  IF row >= 0 /\ row < BOARD_SIZE /\ col >= 0 /\ col < BOARD_SIZE
  THEN e.board[row][col] ELSE -1

\* resetGame leaving the winner of the last game in place
resetGame_KeepsWinner(e) ==
  [e EXCEPT !.board = EmptyBoard, !.gameOver = FALSE, !.moveHistory = <<>>]

\* void GomokuEngine::resetGame()
resetGame(e) ==
  [e EXCEPT !.board = EmptyBoard, !.gameOver = FALSE, !.winner = EMPTY,
            !.moveHistory = <<>>]

\* set_difficulty storing the level as it is given
set_difficulty_Unclamped(e, level) == [e EXCEPT !.difficulty = level]

\* void set_difficulty(void* engine, int level): the wrapper's clamp, then
\* GomokuEngine::setDifficulty
set_difficulty(e, level) ==
  [e EXCEPT !.difficulty = IF level <= 1 THEN EASY
                           ELSE IF level >= 5 THEN HARD ELSE MEDIUM]

\* int get_difficulty(void* engine)
get_difficulty(e) == e.difficulty

\* GomokuEngine::GomokuEngine()
NewEngine ==
  [resetGame([board |-> EmptyBoard, moveHistory |-> <<>>, gameOver |-> FALSE,
              winner |-> EMPTY, difficulty |-> MEDIUM])
   EXCEPT !.difficulty = MEDIUM]

\* ----------------------------------------------------------- generateMoves
\* hasNeighbors looking at the four cells that share a side only
hasNeighbors_NoDiagonals(b, row, col) ==
  \E d \in {<<-1, 0>>, <<1, 0>>, <<0, -1>>, <<0, 1>>} :
     /\ isValidPosition(row + d[1], col + d[2])
     /\ b[row + d[1]][col + d[2]] # EMPTY

\* bool GomokuEngine::hasNeighbors(int row, int col) const
hasNeighbors(b, row, col) ==
  \E dr \in {-1, 0, 1} : \E dc \in {-1, 0, 1} :
     /\ ~(dr = 0 /\ dc = 0)
     /\ isValidPosition(row + dr, col + dc)
     /\ b[row + dr][col + dc] # EMPTY

\* the inner for-loop of generateMoves over the columns of one row: the
\* Empty cells of the row (those with a neighbour only, when near is TRUE)
RECURSIVE RowMoves(_, _, _, _)
RowMoves(b, row, col, near) ==
  IF col >= BOARD_SIZE THEN <<>>
  ELSE (IF b[row][col] = EMPTY /\ (~near \/ hasNeighbors(b, row, col))
        THEN <<(<<row, col>>)>> ELSE <<>>)
       \o RowMoves(b, row, col + 1, near)

\* the outer for-loop of generateMoves over the rows
RECURSIVE ScanMoves(_, _, _)
ScanMoves(b, row, near) ==
  IF row >= BOARD_SIZE THEN <<>>
  ELSE RowMoves(b, row, 0, near) \o ScanMoves(b, row + 1, near)

\* generateMoves without its second pair of loops
generateMoves_NoFallback(b) == ScanMoves(b, 0, TRUE)

\* std::vector<std::pair<int,int>> GomokuEngine::generateMoves() const
generateMoves(b) ==
  LET moves == ScanMoves(b, 0, TRUE)
  IN IF moves = <<>> THEN ScanMoves(b, 0, FALSE) ELSE moves

\* ------------------------------------------------------------ evaluateBoard
\* int GomokuEngine::evaluateSequence(int aiCount, int playerCount) const
evaluateSequence(aiCount, playerCount) ==
  IF aiCount > 0 /\ playerCount > 0 THEN 0
  ELSE IF aiCount > 0 /\ aiCount <= 5
       THEN CASE aiCount = 5 -> 100000
              [] aiCount = 4 -> 10000
              [] aiCount = 3 -> 1000
              [] aiCount = 2 -> 100
              [] aiCount = 1 -> 10
  ELSE IF playerCount > 0 /\ playerCount <= 5
       THEN CASE playerCount = 5 -> -100000
              [] playerCount = 4 -> -10000
              [] playerCount = 3 -> -1000
              [] playerCount = 2 -> -100
              [] playerCount = 1 -> -10
  ELSE 0

\* the innermost loop of evaluateBoard: how many of the 5 cells of the window
\* starting at (row, col) in direction (dr, dc) hold stone
WindowCount(b, row, col, dr, dc, stone) ==
    (IF b[row][col] = stone THEN 1 ELSE 0)
  + (IF b[row + dr][col + dc] = stone THEN 1 ELSE 0)
  + (IF b[row + 2 * dr][col + 2 * dc] = stone THEN 1 ELSE 0)
  + (IF b[row + 3 * dr][col + 3 * dc] = stone THEN 1 ELSE 0)
  + (IF b[row + 4 * dr][col + 4 * dc] = stone THEN 1 ELSE 0)

WindowScore(b, row, col, dr, dc) ==
  evaluateSequence(WindowCount(b, row, col, dr, dc, AI),
                   WindowCount(b, row, col, dr, dc, PLAYER))

\* the windows starting in one row, at columns col..colMax
RECURSIVE RowScore(_, _, _, _, _, _)
RowScore(b, row, col, colMax, dr, dc) ==
  IF col > colMax THEN 0
  ELSE WindowScore(b, row, col, dr, dc) + RowScore(b, row, col + 1, colMax, dr, dc)

\* one of evaluateBoard's four double loops: window starts in rows
\* row..rowMax and columns colMin..colMax
RECURSIVE DirectionScore(_, _, _, _, _, _, _)
DirectionScore(b, row, rowMax, colMin, colMax, dr, dc) ==
  IF row > rowMax THEN 0
  ELSE RowScore(b, row, colMin, colMax, dr, dc)
       + DirectionScore(b, row + 1, rowMax, colMin, colMax, dr, dc)

\* evaluateBoard whose last double loop stops one column short of the edge
evaluateBoard_ShortAntiDiagonal(b) ==
    DirectionScore(b, 0, BOARD_SIZE - 1, 0, BOARD_SIZE - 5, 0, 1)
  + DirectionScore(b, 0, BOARD_SIZE - 5, 0, BOARD_SIZE - 1, 1, 0)
  + DirectionScore(b, 0, BOARD_SIZE - 5, 0, BOARD_SIZE - 5, 1, 1)
  + DirectionScore(b, 0, BOARD_SIZE - 5, 4, BOARD_SIZE - 2, 1, -1)

\* int GomokuEngine::evaluateBoard() const
evaluateBoard(b) ==
    DirectionScore(b, 0, BOARD_SIZE - 1, 0, BOARD_SIZE - 5, 0, 1)
  + DirectionScore(b, 0, BOARD_SIZE - 5, 0, BOARD_SIZE - 1, 1, 0)
  + DirectionScore(b, 0, BOARD_SIZE - 5, 0, BOARD_SIZE - 5, 1, 1)
  + DirectionScore(b, 0, BOARD_SIZE - 5, 4, BOARD_SIZE - 1, 1, -1)

\* --------------------------------------------------------- alphaBetaPruning
INT_MAX == 2147483647
INT_MIN == -INT_MAX - 1

\* The search works on the engine's own board: every operator below takes
\* the board as it is when the code reaches that point and returns the board
\* as the code leaves it, next to the value computed.

\* The for-loop of alphaBetaPruning over moves[lo..hi].  st is the loop's
\* state: the board, alpha, beta, maxEval or minEval (eval) and whether the
\* loop was left by break (cut).
RECURSIVE SearchLoop(_, _, _, _, _, _, _)
RECURSIVE alphaBetaPruning(_, _, _, _, _, _)

\* a turn that leaves the loop by break before it has undone the move
SearchTurn_BreaksBeforeUndo(st, move, go, depth, maximizingPlayer) ==
  LET row == move[1]
      col == move[2]
      tried == [st.board EXCEPT ![row][col] = IF maximizingPlayer THEN AI ELSE PLAYER]
      sub == alphaBetaPruning(tried, go, depth - 1, st.alpha, st.beta, ~maximizingPlayer)
      undone == [sub.board EXCEPT ![row][col] = EMPTY]
      eval == sub.val
  IN IF maximizingPlayer
     THEN [board |-> IF st.beta <= Max(st.alpha, eval) THEN sub.board ELSE undone,
           eval |-> Max(st.eval, eval), alpha |-> Max(st.alpha, eval),
           beta |-> st.beta, cut |-> st.beta <= Max(st.alpha, eval)]
     ELSE [board |-> IF Min(st.beta, eval) <= st.alpha THEN sub.board ELSE undone,
           eval |-> Min(st.eval, eval), alpha |-> st.alpha,
           beta |-> Min(st.beta, eval), cut |-> Min(st.beta, eval) <= st.alpha]

\* a turn whose cutoff test is alpha <= beta instead of beta <= alpha
SearchTurn_CutsAtOnce(st, move, go, depth, maximizingPlayer) ==
  LET row == move[1]
      col == move[2]
      tried == [st.board EXCEPT ![row][col] = IF maximizingPlayer THEN AI ELSE PLAYER]
      sub == alphaBetaPruning(tried, go, depth - 1, st.alpha, st.beta, ~maximizingPlayer)
      undone == [sub.board EXCEPT ![row][col] = EMPTY]
      eval == sub.val
  IN IF maximizingPlayer
     THEN [board |-> undone, eval |-> Max(st.eval, eval), alpha |-> Max(st.alpha, eval),
           beta |-> st.beta, cut |-> Max(st.alpha, eval) <= st.beta]
     ELSE [board |-> undone, eval |-> Min(st.eval, eval), alpha |-> st.alpha,
           beta |-> Min(st.beta, eval), cut |-> st.alpha <= Min(st.beta, eval)]

\* one turn of the loop: try the move, evaluate, undo the move, update
SearchTurn(st, move, go, depth, maximizingPlayer) ==
  LET row == move[1]
      col == move[2]
      tried == [st.board EXCEPT ![row][col] = IF maximizingPlayer THEN AI ELSE PLAYER]
      sub == alphaBetaPruning(tried, go, depth - 1, st.alpha, st.beta, ~maximizingPlayer)
      undone == [sub.board EXCEPT ![row][col] = EMPTY]
      eval == sub.val
  IN IF maximizingPlayer
     THEN [board |-> undone, eval |-> Max(st.eval, eval), alpha |-> Max(st.alpha, eval),
           beta |-> st.beta, cut |-> st.beta <= Max(st.alpha, eval)]
     ELSE [board |-> undone, eval |-> Min(st.eval, eval), alpha |-> st.alpha,
           beta |-> Min(st.beta, eval), cut |-> Min(st.beta, eval) <= st.alpha]

SearchLoop(st, moves, lo, hi, go, depth, maximizingPlayer) ==
  IF lo > hi \/ st.cut THEN st
  ELSE IF lo = hi THEN SearchTurn(st, moves[lo], go, depth, maximizingPlayer)
  ELSE LET mid == (lo + hi) \div 2
       IN SearchLoop(SearchLoop(st, moves, lo, mid, go, depth, maximizingPlayer),
                     moves, mid + 1, hi, go, depth, maximizingPlayer)

\* int GomokuEngine::alphaBetaPruning(int depth, int alpha, int beta,
\* bool maximizingPlayer); go is the engine's gameOver flag
alphaBetaPruning(b, go, depth, alpha, beta, maximizingPlayer) ==
  IF depth = 0 \/ go THEN [board |-> b, val |-> evaluateBoard(b)]
  ELSE LET moves == generateMoves(b)
           st == SearchLoop([board |-> b, alpha |-> alpha, beta |-> beta, cut |-> FALSE,
                             eval |-> IF maximizingPlayer THEN INT_MIN ELSE INT_MAX],
                            moves, 1, Len(moves), go, depth, maximizingPlayer)
       IN [board |-> st.board, val |-> st.eval]

\* -------------------------------------------------------------- getBestMove
\* one turn of getBestMove's loop: try the move, search, undo the move,
\* keep the move when its score is strictly greater
RootTurn(st, move, go, depth) ==
  LET row == move[1]
      col == move[2]
      tried == [st.board EXCEPT ![row][col] = AI]
      sub == alphaBetaPruning(tried, go, depth, INT_MIN, INT_MAX, FALSE)
      undone == [sub.board EXCEPT ![row][col] = EMPTY]
  IN IF sub.val > st.bestScore
     THEN [board |-> undone, bestScore |-> sub.val, bestMove |-> move, cut |-> FALSE]
     ELSE [st EXCEPT !.board = undone]

\* the for-loop of getBestMove over moves[lo..hi]; this loop has no break,
\* cut stays FALSE
RECURSIVE RootLoop(_, _, _, _, _, _)
RootLoop(st, moves, lo, hi, go, depth) ==
  IF lo > hi \/ st.cut THEN st
  ELSE IF lo = hi THEN RootTurn(st, moves[lo], go, depth)
  ELSE LET mid == (lo + hi) \div 2
       IN RootLoop(RootLoop(st, moves, lo, mid, go, depth), moves, mid + 1, hi, go, depth)

\* std::pair<int,int> GomokuEngine::getBestMove(): the engine after the call
\* and the move returned
getBestMove(e) ==
  LET moves == generateMoves(e.board)
  IN IF moves = <<>> /\ e.board[BOARD_SIZE \div 2][BOARD_SIZE \div 2] = EMPTY
     THEN [e |-> e, ret |-> <<BOARD_SIZE \div 2, BOARD_SIZE \div 2>>]
     ELSE LET st == RootLoop([board |-> e.board, bestScore |-> INT_MIN,
                              bestMove |-> <<-1, -1>>, cut |-> FALSE],
                             moves, 1, Len(moves), e.gameOver, e.difficulty)
          IN [e |-> [e EXCEPT !.board = st.board], ret |-> st.bestMove]

\* ------------------------------------------------------------------ actions
SetEngine(e) ==
  /\ board' = e.board
  /\ moveHistory' = e.moveHistory
  /\ gameOver' = e.gameOver
  /\ winner' = e.winner
  /\ difficulty' = e.difficulty

\* int make_move(void* engine, int row, int col, int player)
MakeMove(row, col, player) ==
  LET res == makeMove(Engine, row, col, player)
  IN /\ SetEngine(res.e)
     /\ op' = "makeMove"
     /\ ret' = res.ret
     /\ wasOver' = gameOver
     /\ UNCHANGED <<line, search, call>>

\* int undo_move(void* engine)
UndoMove ==
  LET res == undoMove(Engine)
  IN /\ SetEngine(res.e)
     /\ op' = "undoMove"
     /\ ret' = res.ret
     /\ wasOver' = gameOver
     /\ UNCHANGED <<line, search, call>>

\* void reset_game(void* engine)
ResetGame ==
  /\ SetEngine(resetGame(Engine))
  /\ op' = "resetGame"
  /\ ret' = "void"
  /\ wasOver' = gameOver
  /\ UNCHANGED <<line, search, call>>

\* void set_difficulty(void* engine, int level)
SetDifficulty(level) ==
  /\ SetEngine(set_difficulty(Engine, level))
  /\ op' = "setDifficulty"
  /\ ret' = "void"
  /\ wasOver' = gameOver
  /\ UNCHANGED <<line, search, call>>

\* void get_best_move(void* engine, int* row, int* col)
GetBestMove ==
  LET res == getBestMove(Engine)
  IN /\ SetEngine(res.e)
     /\ op' = "getBestMove"
     /\ ret' = res.ret
     /\ wasOver' = gameOver
     /\ UNCHANGED <<line, search, call>>

\* int can_undo(void* engine)
CanUndo ==
  /\ op' = "canUndo"
  /\ ret' = canUndo(Engine)
  /\ wasOver' = gameOver
  /\ UNCHANGED <<engine, line, search, call>>

\* int get_board_value(void* engine, int row, int col)
GetBoardValue(row, col) ==
  /\ op' = "getBoardValue"
  /\ ret' = get_board_value(Engine, row, col)
  /\ wasOver' = gameOver
  /\ UNCHANGED <<engine, line, search, call>>

\* std::vector<std::pair<int,int>> GomokuEngine::generateMoves() const,
\* called on the engine's board: the list is what the call returns
GenerateMoves ==
  /\ op' = "generateMoves"
  /\ ret' = generateMoves(board)
  /\ wasOver' = gameOver
  /\ UNCHANGED <<engine, line, search, call>>

\* int GomokuEngine::evaluateBoard() const, called on the engine's board
EvaluateBoard ==
  /\ op' = "evaluateBoard"
  /\ ret' = evaluateBoard(board)
  /\ wasOver' = gameOver
  /\ UNCHANGED <<engine, line, search, call>>

\* ------------------------------------------------------- the callers' inputs
\* The cells a game plays on: WIN_LENGTH cells of one line of the board, so
\* that a run of five can be built.  line selects the row, column or
\* diagonal, and with it the board edge that clips checkWin's scan.
LineAnchor == <<[row |-> 7, col |-> 5, dr |-> 0, dc |-> 1],
                [row |-> 10, col |-> 14, dr |-> 1, dc |-> 0],
                [row |-> 0, col |-> 0, dr |-> 1, dc |-> 1],
                [row |-> 0, col |-> 14, dr |-> 1, dc |-> -1]>>
LineCells(l) ==
  {<<LineAnchor[l].row + i * LineAnchor[l].dr, LineAnchor[l].col + i * LineAnchor[l].dc>> :
     i \in 0..(WIN_LENGTH - 1)}
\* a cell off every line, still Empty when a game on a line is decided
SpareCell == <<12, 3>>
\* coordinates outside [0, BOARD_SIZE)
OutsideCells == {<<-1, 7>>, <<BOARD_SIZE, 0>>, <<7, -1>>, <<0, BOARD_SIZE>>}
Stones == {PLAYER, AI}
\* player arguments of make_move, which takes any int
AnyStones == {-1, EMPTY, PLAYER, AI, 3}
\* level arguments of set_difficulty, which takes any int
Levels == {-1, 0, 1, 2, 3, 4, 5, 6}

\* no getBestMove is running, and no second caller is in a call
IdleSearch == [pc |-> "idle", moves |-> <<>>, i |-> 0, score |-> 0,
               bestScore |-> INT_MIN, bestMove |-> <<-1, -1>>,
               args |-> [depth |-> 0, alpha |-> 0, beta |-> 0, maximizingPlayer |-> FALSE],
               stack |-> <<>>]
IdleCall == [pc |-> "idle", name |-> "none", row |-> 0, col |-> 0, player |-> EMPTY,
             ret |-> "void", overlap |-> FALSE]

InitEngine(e) ==
  /\ board = e.board
  /\ moveHistory = e.moveHistory
  /\ gameOver = e.gameOver
  /\ winner = e.winner
  /\ difficulty = e.difficulty
  /\ op = "create"
  /\ ret = "void"
  /\ wasOver = FALSE
  /\ search = IdleSearch
  /\ call = IdleCall

\* ----------------------------------------------------------------- gameplay
\* A new engine; the caller places first-player and second-player stones on
\* the cells of one line (and outside the board), tries the spare cell once
\* the game is decided, undoes and resets.
Init == InitEngine(NewEngine) /\ line \in 1..Len(LineAnchor)

\* the arguments the caller passes to place
PlaceInputs(l) ==
  ((LineCells(l) \cup {SpareCell}) \X Stones) \cup (OutsideCells \X {PLAYER})

Next ==
  \/ \E in \in PlaceInputs(line) :
        /\ in[1] = SpareCell => gameOver
        /\ MakeMove(in[1][1], in[1][2], in[2])
  \/ UndoMove
  \/ ResetGame

Spec == Init /\ [][Next]_vars

\* ------------------------------------------- gameplay, any int as the player
InitAny == InitEngine(NewEngine) /\ line = 1

NextAny ==
  \/ \E cell \in LineCells(line) : \E p \in AnyStones :
        Len(moveHistory) < MaxAnyMoves /\ MakeMove(cell[1], cell[2], p)
  \/ UndoMove
  \/ ResetGame

SpecAny == InitAny /\ [][NextAny]_vars

\* --------------------------------------------------------------- candidates
\* A new engine; the caller places up to MaxCandidateStones stones on the
\* cells of one line (lines 2 to 4 touch the edges and corners of the
\* board), undoes, and asks for the candidates of the board.
InitCandidates == InitEngine(NewEngine) /\ line \in 1..Len(LineAnchor)

NextCandidates ==
  \/ \E cell \in LineCells(line) : \E p \in Stones :
        Len(moveHistory) < MaxCandidateStones /\ MakeMove(cell[1], cell[2], p)
  \/ UndoMove
  \/ GenerateMoves

SpecCandidates == InitCandidates /\ [][NextCandidates]_vars

\* ----------------------------------------------------------------- overline
\* A new engine; the caller plays on WIN_LENGTH + 1 cells of row 7, so that
\* a run of six can be built by filling its middle last.
OverlineCells == {<<7, 5 + i>> : i \in 0..WIN_LENGTH}

InitOverline == InitEngine(NewEngine) /\ line = 1

NextOverline ==
  \/ \E cell \in OverlineCells : \E p \in Stones : MakeMove(cell[1], cell[2], p)
  \/ UndoMove
  \/ ResetGame

SpecOverline == InitOverline /\ [][NextOverline]_vars

\* -------------------------------------------------------------- late game
\* A late position of a game in progress: the whole board filled but for
\* the cells LateHoles.  The stones are laid in pairs that shift by two from
\* one row to the next, which leaves no run longer than two, and four cells
\* are then changed so that second-player has (7,7)..(7,10) with both ends
\* (7,6) and (7,11) open, and first-player has (1,2)..(4,2) with (5,2) open.
LateHoles == {<<7, 6>>, <<7, 11>>, <<5, 2>>, <<11, 11>>}
LateStone(row, col) ==
  IF <<row, col>> \in {<<7, 7>>, <<7, 10>>} THEN AI
  ELSE IF <<row, col>> \in {<<2, 2>>, <<4, 2>>, <<7, 5>>, <<7, 12>>} THEN PLAYER
  ELSE IF (col + 2 * row) % 4 < 2 THEN PLAYER ELSE AI

\* the position is reached by place calls, in row-major order, on the cells
\* numbered lo..hi (cell n is row n \div 15, column n % 15)
RECURSIVE Replay(_, _, _)
Replay(e, lo, hi) ==
  IF lo > hi \/ e.gameOver THEN e
  ELSE IF lo = hi
       THEN LET row == lo \div BOARD_SIZE
                col == lo % BOARD_SIZE
            IN IF <<row, col>> \in LateHoles THEN e
               ELSE makeMove(e, row, col, LateStone(row, col)).e
  ELSE Replay(Replay(e, lo, (lo + hi) \div 2), (lo + hi) \div 2 + 1, hi)

LateEngine == Replay(NewEngine, 0, BOARD_SIZE * BOARD_SIZE - 1)

\* the number of Empty cells of b
EmptyCount(b) ==
  Cardinality({cell \in Idx \X Idx : b[cell[1]][cell[2]] = EMPTY})
HolesFilled(b) == Cardinality({cell \in LateHoles : b[cell[1]][cell[2]] # EMPTY})

LatePlaceInputs ==
  (LateHoles \X Stones) \cup {<<(<<7, 7>>), PLAYER>>, <<(<<-1, 0>>), AI>>}

InitLate == InitEngine(LateEngine) /\ line = 0

\* the operations of the interface; the caller fills at most MaxLateMoves
\* holes, takes back only stones placed on top of the late position (or
\* calls undo on an empty history), and searches when at most MaxSearchEmpty
\* cells are Empty
NextLate ==
  \/ \E in \in LatePlaceInputs :
        /\ HolesFilled(board) < MaxLateMoves \/ ~makeMove(Engine, in[1][1], in[1][2], in[2]).ret
        /\ MakeMove(in[1][1], in[1][2], in[2])
  \/ /\ moveHistory = <<>> \/ Len(moveHistory) >= Len(LateEngine.moveHistory) + 2
     /\ UndoMove
  \/ ResetGame
  \/ \E level \in Levels : SetDifficulty(level)
  \/ EmptyCount(board) <= MaxSearchEmpty /\ GetBestMove
  \/ CanUndo
  \/ \E cell \in {<<7, 6>>, <<0, BOARD_SIZE>>} : GetBoardValue(cell[1], cell[2])

SpecLate == InitLate /\ [][NextLate]_vars

\* -------------------------------------------------------------------- score
\* The boards that are scored: fill gives each of the WIN_LENGTH cells of
\* line l a first-player stone, a second-player stone or none, and the
\* stones are placed by makeMove from the anchor of the line on.
RECURSIVE ScoreEngine(_, _, _)
ScoreEngine(l, fill, n) ==
  IF n = 0 THEN NewEngine
  ELSE LET e == ScoreEngine(l, fill, n - 1)
           row == LineAnchor[l].row + (n - 1) * LineAnchor[l].dr
           col == LineAnchor[l].col + (n - 1) * LineAnchor[l].dc
       IN IF fill[n] = EMPTY THEN e ELSE makeMove(e, row, col, fill[n]).e

\* a board of one line, or the late position
InitScore ==
  \/ \E l \in 1..Len(LineAnchor) : \E fill \in [1..WIN_LENGTH -> {EMPTY, PLAYER, AI}] :
        InitEngine(ScoreEngine(l, fill, WIN_LENGTH)) /\ line = l
  \/ InitEngine(LateEngine) /\ line = 0

NextScore == EvaluateBoard

SpecScore == InitScore /\ [][NextScore]_vars

\* ------------------------------------------------- two callers of one engine
\* One caller runs getBestMove while a second caller makes one call of
\* makeMove, undoMove or resetGame on the same engine.  Nothing in the class
\* orders the two: the statements of getBestMove's loop and the two halves of
\* makeMove are steps that interleave.  search is the frame of getBestMove
\* (its position pc, its list moves, the index i of the move of this turn,
\* score, bestScore and bestMove); call is the second caller's call, its
\* return value, and overlap, which records that a step of one call was
\* taken while the other call was between its first and its last step.
Running == search.pc \notin {"idle", "done"}

\* getBestMove, lines 95-104: the locals, the move list, the early return
SearchBegin ==
  /\ search.pc = "idle"
  /\ LET moves == generateMoves(board)
     IN IF moves = <<>> /\ board[BOARD_SIZE \div 2][BOARD_SIZE \div 2] = EMPTY
        THEN /\ search' = [IdleSearch EXCEPT !.pc = "done",
                               !.bestMove = <<BOARD_SIZE \div 2, BOARD_SIZE \div 2>>]
             /\ op' = "getBestMove"
             /\ ret' = <<BOARD_SIZE \div 2, BOARD_SIZE \div 2>>
             /\ wasOver' = gameOver
        ELSE /\ search' = [IdleSearch EXCEPT !.pc = "try", !.moves = moves, !.i = 1]
             /\ UNCHANGED <<op, ret, wasOver>>
  /\ call' = [call EXCEPT !.overlap = @ \/ call.pc = "accepted"]
  /\ UNCHANGED <<engine, line>>

\* getBestMove, lines 106-111 and 126: the next move of the list is written
\* to the board as an AI stone; at the end of the list bestMove is returned
SearchTry ==
  /\ search.pc = "try"
  /\ IF search.i > Len(search.moves)
     THEN /\ search' = [search EXCEPT !.pc = "done"]
          /\ op' = "getBestMove"
          /\ ret' = search.bestMove
          /\ wasOver' = gameOver
          /\ UNCHANGED board
     ELSE /\ board' = [board EXCEPT ![search.moves[search.i][1]][search.moves[search.i][2]] = AI]
          /\ search' = [search EXCEPT !.pc = "score"]
          /\ UNCHANGED <<op, ret, wasOver>>
  /\ call' = [call EXCEPT !.overlap = @ \/ call.pc = "accepted"]
  /\ UNCHANGED <<moveHistory, gameOver, winner, difficulty, line>>

\* getBestMove, line 114: the search below the move, on the board and the
\* gameOver flag as they are now
SearchScore ==
  /\ search.pc = "score"
  /\ LET sub == alphaBetaPruning(board, gameOver, difficulty, INT_MIN, INT_MAX, FALSE)
     IN /\ board' = sub.board
        /\ search' = [search EXCEPT !.pc = "undo", !.score = sub.val]
  /\ call' = [call EXCEPT !.overlap = @ \/ call.pc = "accepted"]
  /\ UNCHANGED <<moveHistory, gameOver, winner, difficulty, op, ret, wasOver, line>>

\* SearchUndo leaving the stone it tried on the board
SearchUndo_KeepsStone ==
  /\ search.pc = "undo"
  /\ search' = [search EXCEPT
                  !.pc = "try", !.i = @ + 1,
                  !.bestScore = IF search.score > @ THEN search.score ELSE @,
                  !.bestMove = IF search.score > search.bestScore
                               THEN search.moves[search.i] ELSE @]
  /\ call' = [call EXCEPT !.overlap = @ \/ call.pc = "accepted"]
  /\ UNCHANGED <<engine, op, ret, wasOver, line>>

\* getBestMove, lines 117-123: the cell of the move is set to EMPTY, and the
\* move is kept when its score is strictly greater
SearchUndo ==
  /\ search.pc = "undo"
  /\ board' = [board EXCEPT ![search.moves[search.i][1]][search.moves[search.i][2]] = EMPTY]
  /\ search' = [search EXCEPT
                  !.pc = "try", !.i = @ + 1,
                  !.bestScore = IF search.score > @ THEN search.score ELSE @,
                  !.bestMove = IF search.score > search.bestScore
                               THEN search.moves[search.i] ELSE @]
  /\ call' = [call EXCEPT !.overlap = @ \/ call.pc = "accepted"]
  /\ UNCHANGED <<moveHistory, gameOver, winner, difficulty, op, ret, wasOver, line>>

\* makeMove, lines 74-76: the test of the position, the cell and the status
CallMakeMove(row, col, player) ==
  /\ call.pc = "idle"
  /\ IF ~isValidPosition(row, col) \/ board[row][col] # EMPTY \/ gameOver
     THEN /\ call' = [pc |-> "done", name |-> "makeMove", row |-> row, col |-> col,
                      player |-> player, ret |-> FALSE, overlap |-> Running]
          /\ op' = "makeMove"
          /\ ret' = FALSE
          /\ wasOver' = gameOver
     ELSE /\ call' = [pc |-> "accepted", name |-> "makeMove", row |-> row, col |-> col,
                      player |-> player, ret |-> "void", overlap |-> Running]
          /\ UNCHANGED <<op, ret, wasOver>>
  /\ UNCHANGED <<engine, search, line>>

\* makeMove, lines 78-90: the stone, its record, the test for a win
CallMakeMoveCommit ==
  /\ call.pc = "accepted"
  /\ LET b == [board EXCEPT ![call.row][call.col] = call.player]
         won == checkWin(b, call.row, call.col, call.player)
     IN /\ board' = b
        /\ moveHistory' = Append(moveHistory, [row |-> call.row, col |-> call.col,
                                               player |-> call.player])
        /\ gameOver' = IF won THEN TRUE ELSE gameOver
        /\ winner' = IF won THEN call.player ELSE winner
  /\ call' = [call EXCEPT !.pc = "done", !.ret = TRUE, !.overlap = @ \/ Running]
  /\ op' = "makeMove"
  /\ ret' = TRUE
  /\ wasOver' = gameOver
  /\ UNCHANGED <<difficulty, search, line>>

\* undoMove, lines 37-64, in one step
CallUndoMove ==
  /\ call.pc = "idle"
  /\ LET res == undoMove(Engine)
     IN /\ SetEngine(res.e)
        /\ call' = [IdleCall EXCEPT !.pc = "done", !.name = "undoMove", !.ret = res.ret,
                                    !.overlap = Running]
        /\ op' = "undoMove"
        /\ ret' = res.ret
  /\ wasOver' = gameOver
  /\ UNCHANGED <<search, line>>

\* resetGame, lines 16-25, in one step, once getBestMove has begun: a
\* getBestMove that begins after it is the search of the empty board
CallResetGame ==
  /\ call.pc = "idle"
  /\ search.pc # "idle"
  /\ SetEngine(resetGame(Engine))
  /\ call' = [IdleCall EXCEPT !.pc = "done", !.name = "resetGame", !.overlap = Running]
  /\ op' = "resetGame"
  /\ ret' = "void"
  /\ wasOver' = gameOver
  /\ UNCHANGED <<search, line>>

\* the late position, after set_difficulty(engine, 1): a search that goes on
\* after a resetGame works on a nearly empty board
RaceEngine == set_difficulty(LateEngine, EASY)
InitRace == InitEngine(RaceEngine) /\ line = 0

NextRace ==
  \/ SearchBegin
  \/ SearchTry
  \/ SearchScore
  \/ SearchUndo
  \/ \E cell \in LateHoles : \E p \in Stones : CallMakeMove(cell[1], cell[2], p)
  \/ CallMakeMoveCommit
  \/ CallUndoMove
  \/ CallResetGame

SpecRace == InitRace /\ [][NextRace]_vars

\* ------------------------------------------------------- late game, blocking
\* A second late position, with the same holes: the stones in pairs as
\* above, but first-player has (7,7)..(7,10) with both ends (7,6) and (7,11)
\* open, and nobody else has a run longer than three.
BlockStone(row, col) ==
  IF row = 7 /\ col \in 7..10 THEN PLAYER
  ELSE IF (col + 2 * row) % 4 < 2 THEN PLAYER ELSE AI

RECURSIVE ReplayBlock(_, _, _)
ReplayBlock(e, lo, hi) ==
  IF lo > hi \/ e.gameOver THEN e
  ELSE IF lo = hi
       THEN LET row == lo \div BOARD_SIZE
                col == lo % BOARD_SIZE
            IN IF <<row, col>> \in LateHoles THEN e
               ELSE makeMove(e, row, col, BlockStone(row, col)).e
  ELSE ReplayBlock(ReplayBlock(e, lo, (lo + hi) \div 2), (lo + hi) \div 2 + 1, hi)

BlockEngine == ReplayBlock(NewEngine, 0, BOARD_SIZE * BOARD_SIZE - 1)

InitBlock == InitEngine(BlockEngine) /\ line = 0

\* the caller fills at most MaxBlockMoves holes, takes back stones placed on
\* top of the position, sets the difficulty and searches
NextBlock ==
  \/ \E in \in LateHoles \X Stones :
        HolesFilled(board) < MaxBlockMoves /\ MakeMove(in[1][1], in[1][2], in[2])
  \/ Len(moveHistory) >= Len(BlockEngine.moveHistory) + 2 /\ UndoMove
  \/ \E level \in Levels : SetDifficulty(level)
  \/ EmptyCount(board) <= MaxSearchEmpty /\ GetBestMove

SpecBlock == InitBlock /\ [][NextBlock]_vars

\* -------------------------------------------------------- late game, cutoffs
\* A third late position: the stones in pairs as above with nothing changed,
\* and four holes next to each other, so that the boards the search reaches
\* differ in value and the order of the candidates matters.
CutHoles == {<<6, 5>>, <<6, 6>>, <<7, 6>>, <<8, 5>>}
PairStone(row, col) == IF (col + 2 * row) % 4 < 2 THEN PLAYER ELSE AI

RECURSIVE ReplayCut(_, _, _)
ReplayCut(e, lo, hi) ==
  IF lo > hi \/ e.gameOver THEN e
  ELSE IF lo = hi
       THEN LET row == lo \div BOARD_SIZE
                col == lo % BOARD_SIZE
            IN IF <<row, col>> \in CutHoles THEN e
               ELSE makeMove(e, row, col, PairStone(row, col)).e
  ELSE ReplayCut(ReplayCut(e, lo, (lo + hi) \div 2), (lo + hi) \div 2 + 1, hi)

CutEngine == ReplayCut(NewEngine, 0, BOARD_SIZE * BOARD_SIZE - 1)

InitCut == InitEngine(CutEngine) /\ line = 0

\* the caller fills at most MaxCutMoves holes, takes back stones placed on
\* top of the position, sets the difficulty and searches
NextCut ==
  \/ \E in \in CutHoles \X Stones :
        /\ Cardinality({cell \in CutHoles : board[cell[1]][cell[2]] # EMPTY}) < MaxCutMoves
        /\ MakeMove(in[1][1], in[1][2], in[2])
  \/ Len(moveHistory) >= Len(CutEngine.moveHistory) + 2 /\ UndoMove
  \/ \E level \in Levels : SetDifficulty(level)
  \/ EmptyCount(board) <= MaxSearchEmpty /\ GetBestMove

SpecCut == InitCut /\ [][NextCut]_vars

\* ------------------------------------------------------------------ opening
\* A new engine; the caller sets the difficulty, asks for the best move while
\* at most MaxOpeningStones records are in the history and the search is at
\* most MaxOpeningPly plies deep (never twice in a row: the second call
\* would repeat the first), and places up to MaxOpeningMoves stones.
InitOpening == InitEngine(NewEngine) /\ line = 1

NextOpening ==
  \/ \E level \in Levels : SetDifficulty(level)
  \/ /\ Len(moveHistory) <= MaxOpeningStones
     /\ difficulty <= MaxOpeningPly
     /\ op # "getBestMove"
     /\ GetBestMove
  \/ \E cell \in LineCells(line) : \E p \in Stones :
        Len(moveHistory) < MaxOpeningMoves /\ MakeMove(cell[1], cell[2], p)

SpecOpening == InitOpening /\ [][NextOpening]_vars

\* ----------------------------------------------------------------- fallback
\* The boards whose candidates are listed, from the empty board to the full
\* board: a new engine and up to MaxCandidateStones stones on one line (line
\* 1 to 4), or the late position (line 0) and stones on its holes until
\* the game is decided or no cell is Empty.
InitFallback ==
  \/ InitEngine(NewEngine) /\ line \in 1..Len(LineAnchor)
  \/ InitEngine(LateEngine) /\ line = 0

NextFallback ==
  \/ \E cell \in LineCells(IF line = 0 THEN 1 ELSE line) : \E p \in Stones :
        line # 0 /\ Len(moveHistory) < MaxCandidateStones /\ MakeMove(cell[1], cell[2], p)
  \/ \E cell \in LateHoles : \E p \in Stones :
        line = 0 /\ MakeMove(cell[1], cell[2], p)
  \/ /\ Len(moveHistory) >= (IF line = 0 THEN Len(LateEngine.moveHistory) ELSE 0) + 2
     /\ UndoMove
  \/ GenerateMoves

SpecFallback == InitFallback /\ [][NextFallback]_vars

\* ------------------------------------------------------ the search, by steps
\* getBestMove with the calls of alphaBetaPruning taken one statement at a
\* time.  search.args are the arguments of the call that is being entered,
\* search.stack the frames of the calls that are in their loop (depth, alpha,
\* beta, maximizingPlayer, the list moves, the index i of the move of this
\* turn, and maxEval or minEval as eval), search.score the value the last
\* call returned.
\* the return of a call with value val to the frames rest: to getBestMove,
\* line 117, when no frame is left
ReturnTo(rest, val) ==
  [search EXCEPT !.stack = rest, !.score = val,
                 !.pc = IF rest = <<>> THEN "undo" ELSE "return"]

\* getBestMove, line 114: the call of alphaBetaPruning
AlphaBetaCall ==
  /\ search.pc = "score"
  /\ search' = [search EXCEPT !.pc = "enter",
                  !.args = [depth |-> difficulty, alpha |-> INT_MIN, beta |-> INT_MAX,
                            maximizingPlayer |-> FALSE]]
  /\ UNCHANGED <<engine, op, ret, wasOver, line, call>>

\* alphaBetaPruning, lines 146-154 and 173: the base case, or the move list
\* and maxEval or minEval
AlphaBetaEnter ==
  /\ search.pc = "enter"
  /\ IF search.args.depth = 0 \/ gameOver
     THEN search' = ReturnTo(search.stack, evaluateBoard(board))
     ELSE search' = [search EXCEPT
                       !.pc = "loop",
                       !.stack = Append(@, [depth |-> search.args.depth,
                                            alpha |-> search.args.alpha,
                                            beta |-> search.args.beta,
                                            maximizingPlayer |-> search.args.maximizingPlayer,
                                            moves |-> generateMoves(board), i |-> 1,
                                            eval |-> IF search.args.maximizingPlayer
                                                     THEN INT_MIN ELSE INT_MAX])]
  /\ UNCHANGED <<engine, op, ret, wasOver, line, call>>

\* AlphaBetaTry calling with the depth it was called with
AlphaBetaTry_SameDepth ==
  /\ search.pc = "loop"
  /\ LET f == search.stack[Len(search.stack)]
     IN IF f.i > Len(f.moves)
        THEN /\ search' = ReturnTo(SubSeq(search.stack, 1, Len(search.stack) - 1), f.eval)
             /\ UNCHANGED board
        ELSE /\ board' = [board EXCEPT ![f.moves[f.i][1]][f.moves[f.i][2]] =
                                         IF f.maximizingPlayer THEN AI ELSE PLAYER]
             /\ search' = [search EXCEPT
                             !.pc = "enter",
                             !.args = [depth |-> f.depth, alpha |-> f.alpha,
                                       beta |-> f.beta,
                                       maximizingPlayer |-> ~f.maximizingPlayer]]
  /\ UNCHANGED <<moveHistory, gameOver, winner, difficulty, op, ret, wasOver, line, call>>

\* alphaBetaPruning, lines 156-162 and 175-181, and 172 and 195: the next
\* move of the list is written to the board and the search is called one
\* ply less deep; at the end of the list maxEval or minEval is returned
AlphaBetaTry ==
  /\ search.pc = "loop"
  /\ LET f == search.stack[Len(search.stack)]
     IN IF f.i > Len(f.moves)
        THEN /\ search' = ReturnTo(SubSeq(search.stack, 1, Len(search.stack) - 1), f.eval)
             /\ UNCHANGED board
        ELSE /\ board' = [board EXCEPT ![f.moves[f.i][1]][f.moves[f.i][2]] =
                                         IF f.maximizingPlayer THEN AI ELSE PLAYER]
             /\ search' = [search EXCEPT
                             !.pc = "enter",
                             !.args = [depth |-> f.depth - 1, alpha |-> f.alpha,
                                       beta |-> f.beta,
                                       maximizingPlayer |-> ~f.maximizingPlayer]]
  /\ UNCHANGED <<moveHistory, gameOver, winner, difficulty, op, ret, wasOver, line, call>>

\* alphaBetaPruning, lines 164-171 and 183-193: the cell of the move is set
\* to EMPTY, eval and alpha or beta take the value returned, and the loop
\* breaks, returning eval, when beta <= alpha
AlphaBetaUndo ==
  /\ search.pc = "return"
  /\ LET n == Len(search.stack)
         f == search.stack[n]
         eval == IF f.maximizingPlayer THEN Max(f.eval, search.score)
                                       ELSE Min(f.eval, search.score)
         alpha == IF f.maximizingPlayer THEN Max(f.alpha, search.score) ELSE f.alpha
         beta == IF f.maximizingPlayer THEN f.beta ELSE Min(f.beta, search.score)
     IN /\ board' = [board EXCEPT ![f.moves[f.i][1]][f.moves[f.i][2]] = EMPTY]
        /\ IF beta <= alpha
           THEN search' = ReturnTo(SubSeq(search.stack, 1, n - 1), eval)
           ELSE search' = [search EXCEPT
                             !.pc = "loop",
                             !.stack[n] = [f EXCEPT !.eval = eval, !.alpha = alpha,
                                                    !.beta = beta, !.i = @ + 1]]
  /\ UNCHANGED <<moveHistory, gameOver, winner, difficulty, op, ret, wasOver, line, call>>

\* the late position in progress, the late position decided by
\* second-player's stone on (7,6), and the position of the cutoffs, at each
\* difficulty.  The caller has asked for the best move once, and asks again.
DecidedEngine == makeMove(LateEngine, 7, 6, AI).e
InitDepth ==
  \E e \in {LateEngine, DecidedEngine, CutEngine} : \E level \in {EASY, MEDIUM, HARD} :
     LET first == getBestMove(set_difficulty(e, level))
     IN /\ board = first.e.board
        /\ moveHistory = first.e.moveHistory
        /\ gameOver = first.e.gameOver
        /\ winner = first.e.winner
        /\ difficulty = first.e.difficulty
        /\ op = "getBestMove"
        /\ ret = first.ret
        /\ wasOver = first.e.gameOver
        /\ search = IdleSearch
        /\ call = IdleCall
        /\ line = 0

\* one call of getBestMove
NextDepth ==
  \/ SearchBegin
  \/ SearchTry
  \/ AlphaBetaCall
  \/ AlphaBetaEnter
  \/ AlphaBetaTry
  \/ AlphaBetaUndo
  \/ SearchUndo

SpecDepth == InitDepth /\ [][NextDepth]_vars
\* the caller's thread runs: a statement that can be executed is executed
\* (every statement moves search.pc or the index of a loop)
SpecDepthFair == SpecDepth /\ WF_search(NextDepth)

\* ------------------------------------------------------------------- claims
Cells == Idx \X Idx
InRange(cell) == cell[1] \in Idx /\ cell[2] \in Idx
\* the number of cells of b that are not Empty
StoneCount(b) == Cardinality({cell \in Cells : b[cell[1]][cell[2]] # EMPTY})
Directions == {<<0, 1>>, <<1, 0>>, <<1, 1>>, <<1, -1>>}
\* the whole-board scan: b holds five consecutive stones of p along a row, a
\* column or a diagonal
HasFive(b, p) ==
  \E cell \in Cells :
     /\ b[cell[1]][cell[2]] = p
     /\ \E d \in Directions : \A i \in 1..4 :
           /\ InRange(<<cell[1] + i * d[1], cell[2] + i * d[2]>>)
           /\ b[cell[1] + i * d[1]][cell[2] + i * d[2]] = p

\* C1: place returns false and changes nothing of the engine when the
\* coordinates are out of range, the cell is not Empty or the game is decided.
C1_RejectedPlaceChangesNothing ==
  [][op' = "makeMove" =>
       \/ ret' = FALSE /\ UNCHANGED engine
       \/ ~\E in \in PlaceInputs(line) :
             /\ \/ ~InRange(in[1])
                \/ board[in[1][1]][in[1][2]] # EMPTY
                \/ gameOver
             /\ MakeMove(in[1][1], in[1][2], in[2])]_vars

\* C1 witness: a place call on a decided game was rejected while the spare
\* cell is Empty
C1_Witness ==
  /\ op = "makeMove" /\ ret = FALSE /\ wasOver /\ gameOver /\ winner = AI
  /\ board[SpareCell[1]][SpareCell[2]] = EMPTY

C4_HistoryCountsStones == Len(moveHistory) = StoneCount(board)

\* C5: undo on a history of n >= 1 records returns true, removes the
\* min(2, n) most recent records, empties exactly their cells and leaves the
\* other cells and the rest of the history as they were.
C5_UndoPopsTwo ==
  [][(op' = "undoMove" /\ Len(moveHistory) >= 1) =>
       LET n == Len(moveHistory)
           k == Min(2, n)
           popped == {<<moveHistory[i].row, moveHistory[i].col>> : i \in (n - k + 1)..n}
       IN /\ ret' = TRUE
          /\ moveHistory' = SubSeq(moveHistory, 1, n - k)
          /\ \A cell \in Cells :
                board'[cell[1]][cell[2]] =
                   IF cell \in popped THEN EMPTY ELSE board[cell[1]][cell[2]]]_vars

\* C5 witness: an undo took two records off a history of five
C5_Witness == op = "undoMove" /\ ret = TRUE /\ Len(moveHistory) = 3 /\ StoneCount(board) = 3

\* C6: after every successful undo the game is in progress with no winner.
C6_UndoReopensGame ==
  (op = "undoMove" /\ ret = TRUE) => (~gameOver /\ winner = EMPTY)

\* C6 witness: a successful undo of a decided game
C6_Witness == op = "undoMove" /\ ret = TRUE /\ wasOver /\ ~gameOver

\* C9: every cell holds Empty, first-player or second-player and the board
\* is 15x15.
C9_CellValues ==
  /\ DOMAIN board = Idx
  /\ \A r \in Idx : DOMAIN board[r] = Idx
  /\ \A cell \in Cells : board[cell[1]][cell[2]] \in {EMPTY, PLAYER, AI}

\* C10: in every state where the game is in progress, place on an in-range
\* Empty cell returns true, value_at of that cell then returns player, the
\* record (row, col, player) is pushed on top of the history and every other
\* cell is unchanged.
C10_AcceptedPlace ==
  \A in \in PlaceInputs(line) :
     (InRange(in[1]) /\ board[in[1][1]][in[1][2]] = EMPTY /\ ~gameOver)
     => LET r == makeMove(Engine, in[1][1], in[1][2], in[2])
        IN /\ r.ret = TRUE
           /\ get_board_value(r.e, in[1][1], in[1][2]) = in[2]
           /\ r.e.moveHistory =
                 Append(moveHistory, [row |-> in[1][1], col |-> in[1][2], player |-> in[2]])
           /\ \A cell \in Cells \ {in[1]} :
                 r.e.board[cell[1]][cell[2]] = board[cell[1]][cell[2]]

\* C10 witness: an accepted place on a history of two records
C10_Witness ==
  /\ op = "makeMove" /\ ret = TRUE /\ Len(moveHistory) = 3
  /\ board[moveHistory[3].row][moveHistory[3].col] = moveHistory[3].player

\* C3: best_move leaves every cell, the history, the decided flag, the
\* winner and the difficulty as it found them.
C3_BestMoveRestoresEngine ==
  [][op' = "getBestMove" => UNCHANGED engine]_vars

\* C3 witness: a search three plies deep over four Empty cells has returned
\* a move
C3_Witness ==
  /\ op = "getBestMove" /\ difficulty = MEDIUM /\ EmptyCount(board) = 4
  /\ ret \in LateHoles

\* C7: the game becomes decided only by an accepted place, and a decided
\* game keeps its status and its winner over every call but reset and a
\* successful undo.
C7_StatusTransitions ==
  [][/\ (~gameOver /\ gameOver') => (op' = "makeMove" /\ ret' = TRUE)
     /\ (gameOver /\ op' # "resetGame" /\ ~(op' = "undoMove" /\ ret' = TRUE))
           => (gameOver' /\ winner' = winner)]_vars

\* C7 witness: best_move has returned on a decided game, which stays decided
C7_Witness ==
  op = "getBestMove" /\ wasOver /\ gameOver /\ winner = PLAYER

\* C8: on the empty board with the shallowest difficulty best_move returns
\* the center cell (7,7).
C8_EmptyBoardCenter ==
  (op = "getBestMove" /\ board = EmptyBoard /\ difficulty = EASY) => ret = <<7, 7>>

\* C11: reset leaves every cell Empty (value_at returns Empty for every cell
\* in range), the history empty, the game in progress and the winner none;
\* a reset made right after a reset changes nothing.
C11_ResetClearsGame ==
  [][op' = "resetGame" =>
       /\ board' = EmptyBoard
       /\ \A cell \in Cells : get_board_value([board |-> board'], cell[1], cell[2]) = EMPTY
       /\ moveHistory' = <<>>
       /\ ~gameOver' /\ winner' = EMPTY
       /\ op = "resetGame" => UNCHANGED engine]_vars

\* C11 witness: a decided late game has been reset
C11_Witness ==
  /\ op = "resetGame" /\ wasOver /\ board = EmptyBoard /\ moveHistory = <<>>
  /\ ~gameOver /\ winner = EMPTY

\* the score getBestMove's loop computes for a candidate: the search on the
\* board with the candidate tried as the automated player's stone
RootScore(b, go, depth, move) ==
  alphaBetaPruning([b EXCEPT ![move[1]][move[2]] = AI], go, depth,
                   INT_MIN, INT_MAX, FALSE).val

\* the candidates of the board and the score of each
Candidates == generateMoves(board)
CandidateScore ==
  [i \in 1..Len(Candidates) |-> RootScore(board, gameOver, difficulty, Candidates[i])]

\* C12: when there are candidates, best_move returns the first one, in the
\* generator's order, whose score is the maximum over all candidates.
C12_FirstBestCandidate ==
  (op = "getBestMove" /\ Candidates # <<>>) =>
     \E i \in 1..Len(Candidates) :
        /\ ret = Candidates[i]
        /\ \A j \in 1..Len(Candidates) : CandidateScore[j] <= CandidateScore[i]
        /\ \A j \in 1..(i - 1) : CandidateScore[j] < CandidateScore[i]

\* C13: on a board in progress where the automated player holds
\* (7,7)..(7,10) and (7,6) and (7,11) are Empty, best_move returns (7,6) or
\* (7,11).
C13_CompletesFive ==
  (/\ op = "getBestMove" /\ ~gameOver
   /\ \A c \in 7..10 : board[7][c] = AI
   /\ board[7][6] = EMPTY /\ board[7][11] = EMPTY)
  => ret \in {<<7, 6>>, <<7, 11>>}

\* C14: on a board in progress where first-player holds (7,7)..(7,10) and
\* both ends (7,6) and (7,11) are Empty, best_move at difficulty medium or
\* deep returns one of the two ends.
C14_BlocksOpenFour ==
  (/\ op = "getBestMove" /\ ~gameOver /\ difficulty >= MEDIUM
   /\ \A c \in 7..10 : board[7][c] = PLAYER
   /\ board[7][6] = EMPTY /\ board[7][11] = EMPTY)
  => ret \in {<<7, 6>>, <<7, 11>>}

\* C15: can_undo returns false exactly when the history is empty; undo
\* returns false exactly when the history is empty, and then leaves the
\* board, the history, the status and the winner unchanged.
C15_EmptyHistoryUndo ==
  [][/\ op' = "canUndo" => (ret' = FALSE <=> moveHistory = <<>>)
     /\ op' = "undoMove" =>
           /\ ret' = FALSE <=> moveHistory = <<>>
           /\ moveHistory = <<>> => UNCHANGED engine]_vars

\* C15 witness: an undo on the empty history of a game that was reset failed
C15_Witness ==
  op = "undoMove" /\ ret = FALSE /\ moveHistory = <<>> /\ board = EmptyBoard

\* the length of the run of b[row][col]'s stone from (row, col) on in
\* direction (dr, dc), (row, col) not counted
RECURSIVE RunFrom(_, _, _, _, _, _)
RunFrom(b, stone, row, col, dr, dc) ==
  IF isValidPosition(row + dr, col + dc) /\ b[row + dr][col + dc] = stone
  THEN 1 + RunFrom(b, stone, row + dr, col + dc, dr, dc)
  ELSE 0
\* the length of the maximal run through (row, col) along direction d
RunThrough(b, row, col, d) ==
  1 + RunFrom(b, b[row][col], row, col, d[1], d[2])
    + RunFrom(b, b[row][col], row, col, -d[1], -d[2])

\* the record of the last accepted place
LastMove == moveHistory[Len(moveHistory)]

\* C16: a placement decides the game only when some run through the placed
\* stone is exactly five long; an overline of six or more does not win.
C16_ExactlyFiveWins ==
  (op = "makeMove" /\ ret = TRUE /\ ~wasOver /\ gameOver)
  => \E d \in Directions : RunThrough(board, LastMove.row, LastMove.col, d) = WIN_LENGTH

\* C17: set_difficulty(n) followed by get_difficulty returns 1 for n <= 1,
\* 5 for n >= 5 and 3 otherwise, and changes nothing but the difficulty; a
\* new engine has difficulty 3; get_difficulty is always 1, 3 or 5; reset
\* leaves the difficulty as it was.
C17_DifficultyClamp ==
  [][/\ op = "create" => get_difficulty(Engine) = 3
     /\ get_difficulty([difficulty |-> difficulty']) \in {1, 3, 5}
     /\ op' = "resetGame" => difficulty' = difficulty
     /\ op' = "setDifficulty" =>
           \A level \in Levels :
              SetDifficulty(level) =>
                 /\ get_difficulty([difficulty |-> difficulty']) =
                       IF level <= 1 THEN 1 ELSE IF level >= 5 THEN 5 ELSE 3
                 /\ UNCHANGED <<board, moveHistory, gameOver, winner>>]_vars

\* C17 witness: the difficulty of a decided late game was set to the deepest
C17_Witness ==
  op = "setDifficulty" /\ get_difficulty(Engine) = 5 /\ gameOver /\ moveHistory # <<>>

\* The search of alphaBetaPruning with the two breaks removed: the value of
\* board b, depth plies deep, over the same candidates and evaluator.
RECURSIVE Minimax(_, _, _, _)
Minimax(b, go, depth, maximizingPlayer) ==
  IF depth = 0 \/ go THEN evaluateBoard(b)
  ELSE LET moves == generateMoves(b)
           stone == IF maximizingPlayer THEN AI ELSE PLAYER
           vals == {Minimax([b EXCEPT ![moves[i][1]][moves[i][2]] = stone],
                            go, depth - 1, ~maximizingPlayer) : i \in 1..Len(moves)}
       IN IF maximizingPlayer
          THEN CHOOSE v \in vals \cup {INT_MIN} : \A w \in vals : w <= v
          ELSE CHOOSE v \in vals \cup {INT_MAX} : \A w \in vals : v <= w

\* getBestMove over Minimax: the center when there are no candidates and it
\* is Empty, else the first candidate whose value is greater than INT_MIN
\* and than every earlier value and no less than every later one, else the
\* placeholder
MinimaxScore ==
  [i \in 1..Len(Candidates) |->
     Minimax([board EXCEPT ![Candidates[i][1]][Candidates[i][2]] = AI],
             gameOver, difficulty, FALSE)]
MinimaxBestMove ==
  IF Candidates = <<>> /\ board[BOARD_SIZE \div 2][BOARD_SIZE \div 2] = EMPTY
  THEN <<BOARD_SIZE \div 2, BOARD_SIZE \div 2>>
  ELSE IF \A i \in 1..Len(Candidates) : MinimaxScore[i] = INT_MIN THEN <<-1, -1>>
  ELSE Candidates[CHOOSE i \in 1..Len(Candidates) :
                    /\ \A j \in 1..Len(Candidates) : MinimaxScore[j] <= MinimaxScore[i]
                    /\ \A j \in 1..(i - 1) : MinimaxScore[j] < MinimaxScore[i]]

\* C18: the move best_move returns is the move the search returns with the
\* cutoffs removed; more than that, every candidate gets the same score with
\* and without the cutoffs.
C18_CutoffsKeepTheMove ==
  op = "getBestMove" => (ret = MinimaxBestMove /\ CandidateScore = MinimaxScore)


\* a break is taken in the search of the board: after the first candidate m
\* and first-player's first answer, of value v1, the loop over the answers
\* to first-player's second answer is left by break
CutoffTaken ==
  \E i \in 1..Len(Candidates) :
     LET bm == [board EXCEPT ![Candidates[i][1]][Candidates[i][2]] = AI]
         replies == generateMoves(bm)
     IN /\ Len(replies) >= 2
        /\ LET b1 == [bm EXCEPT ![replies[1][1]][replies[1][2]] = PLAYER]
               b2 == [bm EXCEPT ![replies[2][1]][replies[2][2]] = PLAYER]
               v1 == alphaBetaPruning(b1, gameOver, difficulty - 2, INT_MIN, INT_MAX, TRUE).val
               answers == generateMoves(b2)
               st == SearchLoop([board |-> b2, alpha |-> INT_MIN, beta |-> v1, cut |-> FALSE,
                                 eval |-> INT_MIN],
                                answers, 1, Len(answers), gameOver, difficulty - 2, TRUE)
           IN v1 > INT_MIN /\ Len(answers) >= 2 /\ st.cut

\* C18 witness: a search three plies deep over four Empty cells, in which a
\* break was taken, has returned a candidate
C18_Witness ==
  /\ op = "getBestMove" /\ ~gameOver /\ difficulty = MEDIUM /\ EmptyCount(board) = 4
  /\ ret = <<7, 6>> /\ ret = MinimaxBestMove
  /\ CutoffTaken

\* C19: whenever the board has an Empty cell, best_move returns an in-range
\* Empty cell.
C19_ReturnsEmptyCell ==
  (op = "getBestMove" /\ EmptyCount(board) >= 1)
  => (InRange(ret) /\ board[ret[1]][ret[2]] = EMPTY)

\* the cells of the Moore neighbourhood of cell that lie on the board
Neighbours(cell) ==
  {n \in ((cell[1] - 1)..(cell[1] + 1)) \X ((cell[2] - 1)..(cell[2] + 1)) :
     n # cell /\ InRange(n)}
\* the Empty cells of b with a non-Empty neighbour
NearCells(b) ==
  {cell \in Cells : b[cell[1]][cell[2]] = EMPTY
                     /\ \E n \in Neighbours(cell) : b[n[1]][n[2]] # EMPTY}
EmptyCells(b) == {cell \in Cells : b[cell[1]][cell[2]] = EMPTY}

\* C20: candidates returns, in row-major order and without duplicates,
\* exactly the Empty cells with a non-Empty cell among their neighbours on
\* the board, or every Empty cell when there is none; it does not modify
\* the board.
C20_CandidatesOfBoard ==
  [][op' = "generateMoves" =>
       /\ UNCHANGED engine
       /\ {ret'[i] : i \in 1..Len(ret')} =
             IF NearCells(board) = {} THEN EmptyCells(board) ELSE NearCells(board)
       /\ \A i \in 1..(Len(ret') - 1) :
             ret'[i][1] * BOARD_SIZE + ret'[i][2]
                < ret'[i + 1][1] * BOARD_SIZE + ret'[i + 1][2]]_vars

\* C20 witness: the candidates of a board with one stone in the corner
\* (0,0) are its three neighbours
C20_Witness ==
  /\ op = "generateMoves" /\ Len(moveHistory) = 1 /\ board[0][0] # EMPTY
  /\ ret = <<(<<0, 1>>), (<<1, 0>>), (<<1, 1>>)>>

\* the board holds the stones of the history's records and no other stone
Agree(b, h) ==
  /\ \A i \in 1..Len(h) : b[h[i].row][h[i].col] = h[i].player
  /\ Cardinality({cell \in Cells : b[cell[1]][cell[2]] # EMPTY}) = Len(h)

\* the call of the second caller, made on engine e alone
CallOn(e, c) ==
  IF c.name = "makeMove" THEN makeMove(e, c.row, c.col, c.player)
  ELSE IF c.name = "undoMove" THEN undoMove(e)
  ELSE [e |-> resetGame(e), ret |-> "void"]
RaceBest == getBestMove(RaceEngine)
\* what the two calls give when one runs after the other: the engine, the
\* move getBestMove returned, the value the call returned.  Both orders for
\* makeMove and undoMove; for resetGame the order the second caller can
\* take, getBestMove first.
SequentialOutcomes(c) ==
  LET call1 == CallOn(RaceBest.e, c)
      call2 == CallOn(RaceEngine, c)
      best2 == getBestMove(call2.e)
  IN {[e |-> call1.e, best |-> RaceBest.ret, ret |-> call1.ret]}
     \cup IF c.name = "resetGame" THEN {}
          ELSE {[e |-> best2.e, best |-> best2.ret, ret |-> call2.ret]}
BothReturned == search.pc = "done" /\ call.pc = "done"
Outcome == [e |-> Engine, best |-> search.bestMove, ret |-> call.ret]
CallMade == [name |-> call.name, row |-> call.row, col |-> call.col, player |-> call.player]

\* C21: one engine used by two callers at once is not safe.  While the two
\* calls do not interleave, the board and the history agree and the two
\* calls give what one of the two sequential orders gives; a state in which
\* both calls have returned and the board and the history disagree is the
\* outcome of no sequential order of the two calls.
C21_InterleavingBreaksBoard ==
  /\ (~call.overlap /\ ~Running /\ call.pc # "accepted") => Agree(board, moveHistory)
  /\ BothReturned =>
       /\ ~Agree(board, moveHistory) => Outcome \notin SequentialOutcomes(CallMade)
       /\ ~call.overlap => Outcome \in SequentialOutcomes(CallMade)

\* C21 witness: both calls have returned, makeMove accepted the stone and
\* its record is on top of the history, and the cell of the stone is Empty
C21_Witness ==
  /\ BothReturned /\ call.overlap
  /\ call.name = "makeMove" /\ call.ret = TRUE
  /\ moveHistory[Len(moveHistory)] =
        [row |-> call.row, col |-> call.col, player |-> call.player]
  /\ board[call.row][call.col] = EMPTY
  /\ ~Agree(board, moveHistory)

\* the value of the window of five cells of b that starts at cell n (row
\* n \div 15, column n % 15) and runs in direction d; 0 when it leaves the board
WindowValue(b, n, d) ==
  LET cells == {<<(n \div BOARD_SIZE) + i * d[1], (n % BOARD_SIZE) + i * d[2]>> : i \in 0..4}
      ai == Cardinality({cell \in cells : b[cell[1]][cell[2]] = AI})
      opp == Cardinality({cell \in cells : b[cell[1]][cell[2]] = PLAYER})
  IN IF \E cell \in cells : ~InRange(cell) THEN 0
     ELSE IF ai > 0 /\ opp > 0 THEN 0
     ELSE IF ai > 0 THEN 10 ^ ai
     ELSE IF opp > 0 THEN 0 - 10 ^ opp
     ELSE 0
\* the sum of the values of the windows that start at the cells lo..hi
RECURSIVE WindowSum(_, _, _)
WindowSum(b, lo, hi) ==
  IF lo > hi THEN 0
  ELSE IF lo = hi
       THEN WindowValue(b, lo, <<0, 1>>) + WindowValue(b, lo, <<1, 0>>)
            + WindowValue(b, lo, <<1, 1>>) + WindowValue(b, lo, <<1, -1>>)
  ELSE WindowSum(b, lo, (lo + hi) \div 2) + WindowSum(b, (lo + hi) \div 2 + 1, hi)

\* C22: the score of a board is the sum over every window of five cells on
\* the board, along rows, columns and both diagonals, of 0 for a window with
\* stones of both players or no stone, 10, 100, 1000, 10000, 100000 for
\* one to five automated-player stones alone, and the same negated for
\* opponent stones alone; scoring leaves the board as it was.
C22_ScoreIsWindowSum ==
  [][op' = "evaluateBoard" =>
       /\ UNCHANGED engine
       /\ ret' = WindowSum(board, 0, BOARD_SIZE * BOARD_SIZE - 1)]_vars

\* C22 witness: the score of a board of the anti-diagonal line on which the
\* automated player has three stones and the opponent one
C22_Witness ==
  /\ op = "evaluateBoard" /\ line = 4
  /\ board[0][14] = AI /\ board[1][13] = AI /\ board[2][12] = AI
  /\ board[3][11] = PLAYER /\ board[4][10] = EMPTY
  /\ ret = evaluateBoard(board)

\* the stones on the board that no record of the history accounts for: the
\* hypothetical placements of the search
Hypothetical == StoneCount(board) - Len(moveHistory)
\* the frames of the search are one ply apart from the difficulty down, the
\* call being entered is one ply below the last frame and not below 0, and
\* the hypothetical placements are at most the plies and the root placement
DepthBound ==
  /\ Len(search.stack) <= difficulty
  /\ \A k \in 1..Len(search.stack) : search.stack[k].depth = difficulty - k + 1
  /\ search.pc = "enter" =>
       /\ search.args.depth = difficulty - Len(search.stack)
       /\ search.args.depth >= 0
  /\ Hypothetical <= difficulty + 1

\* C23: best_move terminates: below each root candidate the depth argument
\* goes down by one from the difficulty's ply count to 0, the hypothetical
\* placements never exceed the ply count plus the root placement, and the
\* call returns, hypothetical five-in-a-rows not being terminal.
C23_SearchTerminates == []DepthBound /\ <>(search.pc = "done")

\* C23 witness: the search enters a call at depth 0 on a board that holds
\* a hypothetical five-in-a-row of second-player, with as many hypothetical
\* stones as the plies and the root placement, in a game in progress
C23_Witness ==
  /\ search.pc = "enter" /\ search.args.depth = 0 /\ ~gameOver
  /\ difficulty = MEDIUM /\ Hypothetical = difficulty + 1
  /\ \A c \in 6..10 : board[7][c] = AI

\* C24: the status and the winner agree: the game is decided exactly when
\* the winner is first-player or second-player, and the winner is none while
\* the game is in progress.
C24_StatusAgreesWithWinner ==
  /\ gameOver <=> winner \in {PLAYER, AI}
  /\ ~gameOver => winner = EMPTY

\* C25: the fallback to every Empty cell is used only on the empty board.
\* On a board with a stone and an Empty cell some Empty cell has an occupied
\* neighbour and candidates returns only such cells; candidates is empty
\* only when no cell is Empty.
C25_FallbackOnlyOnEmptyBoard ==
  op = "generateMoves" =>
    /\ (StoneCount(board) >= 1 /\ EmptyCells(board) # {}) =>
         /\ NearCells(board) # {}
         /\ \A i \in 1..Len(ret) : ret[i] \in NearCells(board)
    /\ (\E i \in 1..Len(ret) : ret[i] \notin NearCells(board)) => board = EmptyBoard
    /\ ret = <<>> <=> EmptyCells(board) = {}

\* C25 witness: the candidates of the full board, the holes of the late
\* position filled without a five, are none
C25_Witness ==
  /\ op = "generateMoves" /\ ret = <<>>
  /\ EmptyCells(board) = {} /\ ~gameOver /\ line = 0
====
